---------------------------- MODULE Spec2Model ----------------------------
(***************************************************************************)
(* AdminPortal backend (src/app.py): the QR label composition of           *)
(* generate_qr and create_site, the image files it writes to QR_CODES_DIR, *)
(* the sites table, the credential check of the /api routes, and the OAuth *)
(* routes with their OAUTH_STATES dict.                                    *)
(*                                                                         *)
(* Strings are run-length encoded: a string is a sequence of runs          *)
(* [c |-> character, n |-> repetitions >= 1], so "WWW i" is                *)
(* <<R("W",3), R(" ",1), R("i",1)>>.  Operators only slice and concatenate *)
(* runs, so equal run sequences are equal strings.                         *)
(***************************************************************************)
EXTENDS Integers, Sequences, FiniteSets, TLC

VARIABLES
  wrap,      \* wrap_text on its own: its arguments and the list it returned
  session,   \* the Flask session of the one browser: state, credentials, user_info
  qr_files,  \* QR_CODES_DIR: file name -> image
  sites,     \* the sites table: id -> row
  origin,    \* history: file name -> the request that wrote the file
  last,      \* history: the last request, its answer and what it did
  calls,     \* history: the Drive calls and sites-table statements of the last request
  OAUTH_STATES,  \* the module-level dict: state -> [timestamp, used]
  clock,     \* datetime.now().timestamp(), in whole seconds
  inflight   \* requests being handled concurrently: slot -> position and locals

vars == <<wrap, session, qr_files, sites, origin, last, calls, OAUTH_STATES, clock, inflight>>

\* what the routes outside /auth/google leave alone
oauth == <<OAUTH_STATES, clock>>

\* ------------------------------------------------------------ bounds
\* longest text (in runs) handed to wrap_text on its own
MaxLen == 5
\* max_width handed to wrap_text on its own ranges over 0, WidthStep, ..., MaxWidthSteps * WidthStep
MaxWidthSteps == 5
WidthStep == 8

\* ------------------------------------------------------------ strings
R(c, n) == [c |-> c, n |-> n]

SP == R(" ", 1)

Max(a, b) == IF a >= b THEN a ELSE b

\* len(s)
StrLen(s) ==
  LET RECURSIVE sum(_)
      sum(i) == IF i > Len(s) THEN 0 ELSE s[i].n + sum(i + 1)
  IN sum(1)

\* str.strip(): leading and trailing whitespace removed
strip(s) ==
  LET solid == {i \in 1..Len(s) : s[i].c # " "}
  IN IF solid = {} THEN <<>>
     ELSE LET lo == CHOOSE i \in solid : \A j \in solid : i <= j
              hi == CHOOSE i \in solid : \A j \in solid : i >= j
          IN SubSeq(s, lo, hi)

\* str.split(): the maximal whitespace-free pieces, in order
split(s) ==
  LET RECURSIVE go(_, _, _)
      go(i, words, cur) ==
        IF i > Len(s)
        THEN IF cur = <<>> THEN words ELSE Append(words, cur)
        ELSE IF s[i].c = " "
             THEN go(i + 1, IF cur = <<>> THEN words ELSE Append(words, cur), <<>>)
             ELSE go(i + 1, words, Append(cur, s[i]))
  IN go(1, <<>>, <<>>)

\* " ".join(words)
join(words) ==
  LET RECURSIVE go(_)
      go(i) == IF i > Len(words) THEN <<>>
               ELSE IF i = 1 THEN words[1] \o go(2)
               ELSE <<SP>> \o words[i] \o go(i + 1)
  IN go(1)

\* ------------------------------------------------------------ fonts
FontCandidates == <<"DejaVuSans.ttf", "Arial.ttf", "Arial">>

DefaultFont == "default"

Fonts == {FontCandidates[i] : i \in 1..Len(FontCandidates)} \cup {DefaultFont}

\* advance of one glyph at size 16 (the built-in bitmap font is fixed-pitch)
GlyphWidth(font, c) ==
  IF font = DefaultFont THEN 6
  ELSE IF font = "DejaVuSans.ttf"
       THEN CASE c = "W" -> 16 [] c = "i" -> 4 [] c = " " -> 5 [] OTHER -> 10
       ELSE CASE c = "W" -> 15 [] c = "i" -> 4 [] c = " " -> 4 [] OTHER -> 9

\* bbox = draw.textbbox((0, 0), s, font=font); bbox[2] - bbox[0]
textwidth(font, s) ==
  LET RECURSIVE sum(_)
      sum(i) == IF i > Len(s) THEN 0 ELSE s[i].n * GlyphWidth(font, s[i].c) + sum(i + 1)
  IN sum(1)

\* bbox = draw.textbbox((0, 0), "Ag", font=font); bbox[3] - bbox[1]
AgHeight(font) == IF font = DefaultFont THEN 11 ELSE 15

\* ------------------------------------------------------------ wrap_text
\* the loop of wrap_text: words[i..] still to place, cur the line being filled
RECURSIVE wrap_text_loop(_, _, _, _, _, _)
wrap_text_loop(words, i, lines, cur, max_width, font) ==
  IF i > Len(words)
  THEN IF cur # <<>> THEN Append(lines, join(cur)) ELSE lines
  ELSE LET w == words[i]
           test == strip(join(Append(cur, w)))
           width == textwidth(font, test)
       IN IF width <= max_width \/ cur = <<>>
          THEN wrap_text_loop(words, i + 1, lines, Append(cur, w), max_width, font)
          ELSE wrap_text_loop(words, i + 1, Append(lines, join(cur)), <<w>>, max_width, font)

\* a wrap_text that never starts a new line
wrap_text_one_line(text, max_width, font) ==
  IF text = <<>> THEN <<>>
  ELSE LET words == split(text) IN IF words = <<>> THEN <<>> ELSE <<join(words)>>

\* a wrap_text that forgets the line still being filled when the words run out
wrap_text_drop_last(text, max_width, font) ==
  IF text = <<>> THEN <<>>
  ELSE LET all == wrap_text_loop(split(text), 1, <<>>, <<>>, max_width, font)
       IN SubSeq(all, 1, Len(all) - 1)

\* a wrap_text that answers an empty text with one empty line
wrap_text_keep_empty(text, max_width, font) ==
  IF text = <<>> THEN << <<>> >>
  ELSE wrap_text_loop(split(text), 1, <<>>, <<>>, max_width, font)

\* generate_qr.wrap_text
wrap_text(text, max_width, font) ==
  IF text = <<>> THEN <<>>
  ELSE wrap_text_loop(split(text), 1, <<>>, <<>>, max_width, font)

RECURSIVE site_wrap_text_loop(_, _, _, _, _, _)
site_wrap_text_loop(words, i, lines, cur, max_width, font) ==
  IF i > Len(words)
  THEN IF cur # <<>> THEN Append(lines, join(cur)) ELSE lines
  ELSE LET w == words[i]
           test == strip(join(Append(cur, w)))
           width == textwidth(font, test)
       IN IF width <= max_width \/ cur = <<>>
          THEN site_wrap_text_loop(words, i + 1, lines, Append(cur, w), max_width, font)
          ELSE site_wrap_text_loop(words, i + 1, Append(lines, join(cur)), <<w>>, max_width, font)

\* create_site.wrap_text
site_wrap_text(text, max_width, font) ==
  IF text = <<>> THEN <<>>
  ELSE site_wrap_text_loop(split(text), 1, <<>>, <<>>, max_width, font)

\* ------------------------------------------------------------ QR symbol
box_size == 10
border == 4

\* bytes a version 1..40 symbol holds at ERROR_CORRECT_L
QRCapacityL ==
  <<17, 32, 53, 78, 106, 134, 154, 192, 230, 271,
    321, 367, 425, 458, 520, 586, 644, 718, 792, 858,
    929, 1003, 1091, 1171, 1273, 1367, 1465, 1528, 1628, 1732,
    1840, 1952, 2068, 2188, 2303, 2431, 2563, 2699, 2809, 2953>>

\* qr.add_data(payload); qr.make(fit=True): the smallest version that holds the
\* payload, or DataOverflowError when none does
qr_make(payload) ==
  LET n == StrLen(payload)
      fit == {v \in 1..Len(QRCapacityL) : QRCapacityL[v] >= n}
  IN IF fit = {} THEN [ok |-> FALSE, version |-> 0]
     ELSE [ok |-> TRUE, version |-> CHOOSE v \in fit : \A u \in fit : v <= u]

\* qr_img.size: (17 + 4 * version) modules and the border on both sides, square
qr_size(version) == (17 + 4 * version + 2 * border) * box_size

\* ------------------------------------------------------------ generate_qr: composition
padding_top == 10
gap_between == 6
BlockGap == 12
BottomPadding == 10
MinCaptionHeight == 60
SidePadding == 20
MinLeft == 10

\* the font loop of generate_qr; installed is the set of fonts truetype() can load
RECURSIVE font_loop(_, _, _)
font_loop(installed, i, tried_fonts) ==
  IF i > Len(FontCandidates)
  THEN [font |-> DefaultFont, tried_fonts |-> tried_fonts, attempts |-> i - 1]
  ELSE IF FontCandidates[i] \in installed
       THEN [font |-> FontCandidates[i], tried_fonts |-> tried_fonts, attempts |-> i]
       ELSE font_loop(installed, i + 1, Append(tried_fonts, FontCandidates[i]))

\* a font loop that does not break and keeps the last candidate that loads
prepare_font_last(installed) ==
  LET ok == {i \in 1..Len(FontCandidates) : FontCandidates[i] \in installed}
      tried == SelectSeq(FontCandidates, LAMBDA f : f \notin installed)
  IN IF ok = {} THEN [font |-> DefaultFont, tried_fonts |-> tried, attempts |-> Len(FontCandidates)]
     ELSE [font |-> FontCandidates[CHOOSE i \in ok : \A j \in ok : i >= j],
           tried_fonts |-> tried, attempts |-> Len(FontCandidates)]

\* a font kept in a module-level cache that the first stored image invalidates
prepare_font_cached(installed) ==
  IF qr_files = <<>> THEN font_loop(installed, 1, <<>>)
  ELSE [font |-> DefaultFont, tried_fonts |-> FontCandidates, attempts |-> Len(FontCandidates)]

prepare_font(installed) == font_loop(installed, 1, <<>>)

\* lines drawn one line height apart, without the gap between lines
RECURSIVE draw_centered_lines_no_gap(_, _, _, _, _, _)
draw_centered_lines_no_gap(lines, i, cursor_y, qr_w, line_height, font) ==
  IF i > Len(lines) THEN [drawn |-> <<>>, cursor_y |-> cursor_y]
  ELSE LET w == textwidth(font, lines[i])
           x == Max(MinLeft, (qr_w - w) \div 2)
           rest == draw_centered_lines_no_gap(lines, i + 1, cursor_y + line_height,
                                              qr_w, line_height, font)
       IN [drawn |-> <<[x |-> x, y |-> cursor_y, text |-> lines[i]]>> \o rest.drawn,
           cursor_y |-> rest.cursor_y]

\* lines centered without the minimum left inset
RECURSIVE draw_centered_lines_unclamped(_, _, _, _, _, _)
draw_centered_lines_unclamped(lines, i, cursor_y, qr_w, line_height, font) ==
  IF i > Len(lines) THEN [drawn |-> <<>>, cursor_y |-> cursor_y]
  ELSE LET w == textwidth(font, lines[i])
           x == (qr_w - w) \div 2
           rest == draw_centered_lines_unclamped(lines, i + 1,
                                                 cursor_y + line_height + gap_between,
                                                 qr_w, line_height, font)
       IN [drawn |-> <<[x |-> x, y |-> cursor_y, text |-> lines[i]]>> \o rest.drawn,
           cursor_y |-> rest.cursor_y]

\* draw_centered_lines: the text drawn and the cursor afterwards
RECURSIVE draw_centered_lines(_, _, _, _, _, _)
draw_centered_lines(lines, i, cursor_y, qr_w, line_height, font) ==
  IF i > Len(lines) THEN [drawn |-> <<>>, cursor_y |-> cursor_y]
  ELSE LET w == textwidth(font, lines[i])
           x == Max(MinLeft, (qr_w - w) \div 2)
           rest == draw_centered_lines(lines, i + 1, cursor_y + line_height + gap_between,
                                       qr_w, line_height, font)
       IN [drawn |-> <<[x |-> x, y |-> cursor_y, text |-> lines[i]]>> \o rest.drawn,
           cursor_y |-> rest.cursor_y]

\* a canvas as high as the caption alone asks for
qr_canvas_height_no_floor(qr_h, text_height) == qr_h + text_height

\* new_h = qr_h + max(60, text_height)
qr_canvas_height(qr_h, text_height) == qr_h + Max(MinCaptionHeight, text_height)

\* block_gap = 12 if (name_lines and loc_lines) else 0
qr_block_gap(name_lines, loc_lines) ==
  IF name_lines # <<>> /\ loc_lines # <<>> THEN BlockGap ELSE 0

\* lines 839-948 of generate_qr, after validation and qr.make: the locals and the
\* composed image out
qr_compose(site_name, site_location, resource_url, version, installed) ==
  LET qr_w == qr_size(version)
      qr_h == qr_size(version)
      fr == prepare_font(installed)
      font == fr.font
      text_max_width == qr_w - SidePadding
      name_lines == wrap_text(site_name, text_max_width, font)
      loc_lines == wrap_text(site_location, text_max_width, font)
      line_height == AgHeight(font)
      block_gap == qr_block_gap(name_lines, loc_lines)
      both == name_lines # <<>> /\ loc_lines # <<>>
      text_height == padding_top + Len(name_lines) * line_height
                     + (IF both THEN block_gap ELSE 0)
                     + Len(loc_lines) * line_height + BottomPadding
      new_h == qr_canvas_height(qr_h, text_height)
      d1 == IF name_lines # <<>>
            THEN draw_centered_lines(name_lines, 1, qr_h + padding_top, qr_w, line_height, font)
            ELSE [drawn |-> <<>>, cursor_y |-> qr_h + padding_top]
      y2 == IF both
            THEN d1.cursor_y + (IF block_gap > gap_between THEN block_gap - gap_between ELSE 0)
            ELSE d1.cursor_y
      d2 == IF loc_lines # <<>>
            THEN draw_centered_lines(loc_lines, 1, y2, qr_w, line_height, font)
            ELSE [drawn |-> <<>>, cursor_y |-> y2]
  IN [qr_w |-> qr_w, qr_h |-> qr_h, font |-> font, tried_fonts |-> fr.tried_fonts,
      attempts |-> fr.attempts, name_lines |-> name_lines, loc_lines |-> loc_lines,
      line_height |-> line_height, line_gap |-> gap_between, block_gap |-> block_gap,
      text_height |-> text_height,
      out |-> [size |-> <<qr_w, new_h>>,
               qr |-> [data |-> resource_url, version |-> version, at |-> <<0, 0>>],
               text |-> d1.drawn \o d2.drawn, font |-> font]]

\* ------------------------------------------------------------ create_site: composition
pad_top == 10
gap == 6

\* the font loop of create_site
RECURSIVE site_font_loop(_, _, _)
site_font_loop(installed, i, tried) ==
  IF i > Len(FontCandidates)
  THEN [font |-> DefaultFont, tried_fonts |-> tried, attempts |-> i - 1]
  ELSE IF FontCandidates[i] \in installed
       THEN [font |-> FontCandidates[i], tried_fonts |-> tried, attempts |-> i]
       ELSE site_font_loop(installed, i + 1, Append(tried, FontCandidates[i]))

site_font(installed) == site_font_loop(installed, 1, <<>>)

\* line_h: (bbox[3] - bbox[1]) or 16
line_h(font) == IF AgHeight(font) # 0 THEN AgHeight(font) ELSE 16

\* draw_centered
RECURSIVE draw_centered(_, _, _, _, _, _)
draw_centered(lines, i, cursor_y, qr_w, lh, font) ==
  IF i > Len(lines) THEN [drawn |-> <<>>, cursor_y |-> cursor_y]
  ELSE LET w == textwidth(font, lines[i])
           x == Max(MinLeft, (qr_w - w) \div 2)
           rest == draw_centered(lines, i + 1, cursor_y + lh + gap, qr_w, lh, font)
       IN [drawn |-> <<[x |-> x, y |-> cursor_y, text |-> lines[i]]>> \o rest.drawn,
           cursor_y |-> rest.cursor_y]

\* new_h = qr_h + max(60, text_h)
site_canvas_height(qr_h, text_h) == qr_h + Max(MinCaptionHeight, text_h)

\* block_gap = 12 if (name_lines and loc_lines) else 0
site_block_gap(name_lines, loc_lines) ==
  IF name_lines # <<>> /\ loc_lines # <<>> THEN BlockGap ELSE 0

\* lines 1343-1444 of create_site, after validation and qr.make
site_compose(site_name, site_location, folder_link, version, installed) ==
  LET qr_w == qr_size(version)
      qr_h == qr_size(version)
      fr == site_font(installed)
      font == fr.font
      text_max_w == qr_w - SidePadding
      name_lines == site_wrap_text(site_name, text_max_w, font)
      loc_lines == site_wrap_text(site_location, text_max_w, font)
      lh == line_h(font)
      block_gap == site_block_gap(name_lines, loc_lines)
      both == name_lines # <<>> /\ loc_lines # <<>>
      text_h == pad_top + Len(name_lines) * (lh + gap)
                + (IF both THEN block_gap ELSE 0)
                + Len(loc_lines) * (lh + gap) + BottomPadding
      new_h == site_canvas_height(qr_h, text_h)
      d1 == IF name_lines # <<>>
            THEN draw_centered(name_lines, 1, qr_h + pad_top, qr_w, lh, font)
            ELSE [drawn |-> <<>>, cursor_y |-> qr_h + pad_top]
      y2 == IF both THEN d1.cursor_y + Max(0, block_gap - gap) ELSE d1.cursor_y
      d2 == IF loc_lines # <<>>
            THEN draw_centered(loc_lines, 1, y2, qr_w, lh, font)
            ELSE [drawn |-> <<>>, cursor_y |-> y2]
  IN [qr_w |-> qr_w, qr_h |-> qr_h, font |-> font, tried_fonts |-> fr.tried_fonts,
      attempts |-> fr.attempts, name_lines |-> name_lines, loc_lines |-> loc_lines,
      line_height |-> lh, line_gap |-> gap, block_gap |-> block_gap,
      text_height |-> text_h,
      out |-> [size |-> <<qr_w, new_h>>,
               qr |-> [data |-> folder_link, version |-> version, at |-> <<0, 0>>],
               text |-> d1.drawn \o d2.drawn, font |-> font]]

\* ------------------------------------------------------------ requests
\* a JSON field: absent (None) or a string
None == [some |-> FALSE, val |-> <<>>]
Some(s) == [some |-> TRUE, val |-> s]

\* x or ''
OrEmpty(o) == IF o.some THEN o.val ELSE <<>>

\* str(x): None becomes the text "None"
StrOf(o) == IF o.some THEN o.val ELSE <<R("None", 1)>>

GoogleDrive == <<R("GoogleDrive", 1)>>

\* f"{qr_id}.png"
png(qr_id) == <<qr_id[1], qr_id[2], ".png">>

\* f"{base}qrcodes/{filename}"
qr_link(filename) == <<"host_url/", "qrcodes/", filename>>

NoLocals == [none |-> TRUE]

\* what a request did and answered
Reply(op, data, env, status, body, encoded, locals, wrote, inserted) ==
  [op |-> op, data |-> data, env |-> env, status |-> status, body |-> body,
   encoded |-> encoded, locals |-> locals, wrote |-> wrote, inserted |-> inserted]

NoRequest == Reply("none", None, None, 0, None, FALSE, NoLocals, {}, {})

Put(f, k, v) == [x \in DOMAIN f \cup {k} |-> IF x = k THEN v ELSE f[x]]

\* credentials handed out whatever the session holds
get_credentials_any(s) == TRUE

\* get_credentials: None unless 'credentials' is in the session
get_credentials(s) == s.credentials

\* ------------------------------------------------------------ generate_qr
\* fields read without strip, None turned into text
qr_fields_str(data) ==
  [site_name |-> StrOf(data.site_name),
   site_location |-> StrOf(data.site_location),
   resource_url |-> StrOf(data.resource_url)]

\* data = request.json or {}; the three fields, stripped
qr_fields(data) ==
  [site_name |-> strip(OrEmpty(data.site_name)),
   site_location |-> strip(OrEmpty(data.site_location)),
   resource_url |-> strip(OrEmpty(data.resource_url))]

\* POST /api/generate_qr
generate_qr(data, env) ==
  LET f == qr_fields(data)
      q == qr_make(f.resource_url)
      c == qr_compose(f.site_name, f.site_location, f.resource_url, q.version, env.installed)
      qr_id == <<"site_", env.hex>>
      filename == png(qr_id)
      result == [qr_id |-> qr_id, qr_png_view_link |-> qr_link(filename),
                 qr_png_download_link |-> qr_link(filename), site_name |-> f.site_name,
                 site_location |-> f.site_location, resource_url |-> f.resource_url]
      Answer(status, body, encoded, locals) ==
        /\ last' = Reply("generate_qr", data, env, status, body, encoded, locals, {}, {})
        /\ UNCHANGED <<qr_files, origin>>
  IN /\ UNCHANGED <<wrap, session, sites, oauth, inflight>>
     /\ calls' = {}
     /\ IF ~get_credentials(session)
        THEN Answer(401, "Authentication required. Please sign in.", FALSE, NoLocals)
        ELSE IF f.site_name = <<>>
        THEN Answer(400, "Site name is required", FALSE, NoLocals)
        ELSE IF f.resource_url = <<>>
        THEN Answer(400, "Resource URL is required", FALSE, NoLocals)
        ELSE IF ~q.ok
        THEN Answer(500, "Failed to generate QR code", FALSE, NoLocals)
        ELSE IF ~env.save_ok
        THEN Answer(500, "Failed to generate QR code", TRUE, c)
        ELSE /\ qr_files' = Put(qr_files, filename, c.out)
             /\ origin' = Put(origin, filename,
                              [op |-> "generate_qr", name |-> data.site_name,
                               location |-> data.site_location, payload |-> data.resource_url,
                               installed |-> env.installed])
             /\ last' = Reply("generate_qr", data, env, 200, result, TRUE, c, {filename}, {})

\* GET /qrcodes/<filename>
serve_qrcode(filename) ==
  /\ last' = IF filename \in DOMAIN qr_files
             THEN Reply("serve_qrcode", filename, None, 200, qr_files[filename],
                        FALSE, NoLocals, {}, {})
             ELSE \* abort(404) raises NotFound inside the try; except Exception answers 500
                  Reply("serve_qrcode", filename, None, 500, "404 Not Found",
                        FALSE, NoLocals, {}, {})
  /\ calls' = {}
  /\ UNCHANGED <<wrap, session, qr_files, sites, origin, oauth, inflight>>

\* ------------------------------------------------------------ sites
UserEmail == "user@example.com"

\* the fields of create_site's body, stripped; site_id as given or generated
site_fields(data, hex) ==
  [name |-> strip(OrEmpty(data.name)),
   location |-> strip(OrEmpty(data.location)),
   folder_link |-> strip(OrEmpty(data.folder_link)),
   folder_type |-> strip(IF OrEmpty(data.folder_type) # <<>> THEN data.folder_type.val
                         ELSE GoogleDrive),
   description |-> strip(OrEmpty(data.description)),
   site_id |-> IF data.site_id.some /\ data.site_id.val # <<>> THEN data.site_id.val
               ELSE <<"site_", hex>>]

\* POST /api/sites
create_site(data, env) ==
  LET f == site_fields(data, env.hex_site)
      q == qr_make(f.folder_link)
      c == site_compose(f.name, f.location, f.folder_link, q.version, env.installed)
      qr_id == <<"qr_", env.hex_qr>>
      qr_filename == png(qr_id)
      qr_url == qr_link(qr_filename)
      new_site == [id |-> f.site_id, name |-> f.name, location |-> f.location,
                   folder_type |-> f.folder_type, folder_link |-> f.folder_link,
                   description |-> f.description, qr_url |-> qr_url, qr_id |-> qr_id,
                   created_at |-> env.now, updated_at |-> env.now, created_by |-> UserEmail]
      Answer(status, body, encoded, locals) ==
        /\ last' = Reply("create_site", data, env, status, body, encoded, locals, {}, {})
        /\ calls' = IF status = 401 THEN {} ELSE {"drive"}
        /\ UNCHANGED <<qr_files, origin, sites>>
      Saved == /\ qr_files' = Put(qr_files, qr_filename, c.out)
               /\ origin' = Put(origin, qr_filename,
                                [op |-> "create_site", name |-> data.name,
                                 location |-> data.location, payload |-> data.folder_link,
                                 installed |-> env.installed])
  IN /\ UNCHANGED <<wrap, session, oauth, inflight>>
     /\ IF ~get_credentials(session)
        THEN Answer(401, "Authentication required. Please sign in.", FALSE, NoLocals)
        ELSE IF ~env.drive_ok
        THEN Answer(500, "Failed to create site", FALSE, NoLocals)
        ELSE IF f.name = <<>>
        THEN Answer(400, "Site name is required", FALSE, NoLocals)
        ELSE IF f.location = <<>>
        THEN Answer(400, "Site location is required", FALSE, NoLocals)
        ELSE IF f.folder_link = <<>>
        THEN Answer(400, "Folder link is required", FALSE, NoLocals)
        ELSE IF ~q.ok
        THEN Answer(500, "Failed to create site", FALSE, NoLocals)
        ELSE IF ~env.save_ok
        THEN Answer(500, "Failed to create site", TRUE, c)
        ELSE IF ~env.db_ok
        THEN /\ Saved
             /\ UNCHANGED sites
             /\ calls' = {"drive"}
             /\ last' = Reply("create_site", data, env, 500, "Database connection failed",
                              TRUE, c, {qr_filename}, {})
        ELSE IF f.site_id \in DOMAIN sites
        THEN \* INSERT violates PRIMARY KEY: sqlite3.IntegrityError, caught at the end
             /\ Saved
             /\ UNCHANGED sites
             /\ calls' = {"drive", "insert"}
             /\ last' = Reply("create_site", data, env, 500, "Failed to create site",
                              TRUE, c, {qr_filename}, {})
        ELSE /\ Saved
             /\ sites' = Put(sites, f.site_id, new_site)
             /\ calls' = {"drive", "insert"}
             /\ last' = Reply("create_site", data, env, 200, new_site,
                              TRUE, c, {qr_filename}, {f.site_id})

\* every column set, an absent field to the empty string
update_data_all(data, now) ==
  [k \in {"name", "location", "folder_link", "folder_type", "description", "updated_at"} |->
     IF k = "updated_at" THEN now ELSE IF data[k].some THEN data[k].val ELSE <<>>]

\* the columns update_site sets: those given non-null, and updated_at
update_data(data, now) ==
  LET given == {k \in {"name", "location", "folder_link", "folder_type", "description"} :
                  data[k].some}
  IN [k \in given \cup {"updated_at"} |-> IF k = "updated_at" THEN now ELSE data[k].val]

\* UPDATE sites SET ... WHERE id = ?
updated_row(row, upd) == [k \in DOMAIN row |-> IF k \in DOMAIN upd THEN upd[k] ELSE row[k]]

\* PUT /api/sites/<site_id>; has_body is FALSE when request.json is None
update_site(site_id, has_body, data, env) ==
  LET Answer(status, body) ==
        last' = Reply("update_site", [site_id |-> site_id, has_body |-> has_body, body |-> data],
                      env, status, body, FALSE, NoLocals, {}, {})
      updated_site == updated_row(sites[site_id], update_data(data, env.now))
  IN /\ UNCHANGED <<wrap, session, qr_files, origin, oauth, inflight>>
     /\ IF ~get_credentials(session)
        THEN Answer(401, "Authentication required. Please sign in.")
             /\ UNCHANGED sites /\ calls' = {}
        ELSE IF ~has_body
        THEN Answer(500, "'NoneType' object has no attribute 'get'")
             /\ UNCHANGED sites /\ calls' = {}
        ELSE IF ~env.db_ok
        THEN Answer(500, "Database connection failed") /\ UNCHANGED sites /\ calls' = {}
        ELSE IF site_id \notin DOMAIN sites
        THEN Answer(404, "Site not found") /\ UNCHANGED sites /\ calls' = {"select"}
        ELSE /\ sites' = [sites EXCEPT ![site_id] = updated_site]
             /\ calls' = {"select", "update", "drive"}
             /\ IF env.drive_ok THEN Answer(200, updated_site)
                ELSE Answer(500, "drive about failed")

\* DELETE /api/sites/<site_id>
delete_site(site_id, env) ==
  LET Answer(status, body) ==
        last' = Reply("delete_site", [site_id |-> site_id], env, status, body,
                      FALSE, NoLocals, {}, {})
  IN /\ UNCHANGED <<wrap, session, qr_files, origin, oauth, inflight>>
     /\ IF ~get_credentials(session)
        THEN Answer(401, "Authentication required. Please sign in.")
             /\ UNCHANGED sites /\ calls' = {}
        ELSE IF ~env.db_ok
        THEN Answer(500, "Database connection failed") /\ UNCHANGED sites /\ calls' = {}
        ELSE IF site_id \notin DOMAIN sites
        THEN Answer(404, "Site not found") /\ UNCHANGED sites /\ calls' = {"select"}
        ELSE /\ sites' = [k \in DOMAIN sites \ {site_id} |-> sites[k]]
             /\ calls' = {"select", "delete", "drive"}
             /\ IF env.drive_ok THEN Answer(200, [success |-> TRUE])
                ELSE Answer(500, "drive about failed")

\* ------------------------------------------------------------ session
\* request.args.get('state'): absent or a string
NoState == [some |-> FALSE, val |-> ""]

\* an empty session
NoSession == [state |-> NoState, credentials |-> FALSE, user_info |-> FALSE]

\* GET /auth/google/callback?state=incoming_state; token_ok: fetch_token succeeds,
\* about_ok: the user-info request after it succeeds
auth_google_callback(incoming_state, token_ok, about_ok) ==
  LET s1 == IF ~session.state.some \/ session.state # incoming_state
            THEN [session EXCEPT !.state = incoming_state] ELSE session
      s2 == IF token_ok
            THEN [s1 EXCEPT !.credentials = TRUE,
                            !.user_info = IF about_ok THEN TRUE ELSE s1.user_info]
            ELSE s1
  IN /\ session' = s2
     /\ last' = Reply("auth_google_callback", incoming_state,
                      [token_ok |-> token_ok, about_ok |-> about_ok],
                      IF token_ok THEN 302 ELSE 200, None, FALSE, NoLocals, {}, {})
     /\ calls' = IF token_ok THEN {"drive"} ELSE {}
     /\ UNCHANGED <<wrap, qr_files, sites, origin, oauth, inflight>>

\* GET /auth/logout: session.clear()
auth_logout ==
  /\ session' = NoSession
  /\ last' = Reply("auth_logout", None, None, 200, [success |-> TRUE], FALSE, NoLocals, {}, {})
  /\ calls' = {}
  /\ UNCHANGED <<wrap, qr_files, sites, origin, oauth, inflight>>

\* session.clear() left out when the user-info request fails
auth_status_keep(about_ok) ==
  /\ session' = session
  /\ last' = Reply("auth_status", None, [about_ok |-> about_ok], 200,
                   IF get_credentials(session) /\ about_ok THEN [authenticated |-> TRUE]
                   ELSE [authenticated |-> FALSE],
                   FALSE, NoLocals, {}, {})
  /\ calls' = IF get_credentials(session) THEN {"drive"} ELSE {}
  /\ UNCHANGED <<wrap, qr_files, sites, origin, oauth, inflight>>

\* GET /auth/status; about_ok: the Drive user-info request succeeds
auth_status(about_ok) ==
  /\ session' = IF get_credentials(session) /\ ~about_ok THEN NoSession ELSE session
  /\ last' = Reply("auth_status", None, [about_ok |-> about_ok], 200,
                   IF get_credentials(session) /\ about_ok THEN [authenticated |-> TRUE]
                   ELSE [authenticated |-> FALSE],
                   FALSE, NoLocals, {}, {})
  /\ calls' = IF get_credentials(session) THEN {"drive"} ELSE {}
  /\ UNCHANGED <<wrap, qr_files, sites, origin, oauth, inflight>>

\* ------------------------------------------------------------ OAuth states
\* seconds after which clean_old_states drops a state
StateLifetime == 600

\* states older than the lifetime or as old as it are dropped
clean_old_states_at_age(states, now) ==
  LET expired == {s \in DOMAIN states :
                    now - states[s].timestamp >= StateLifetime \/ states[s].used}
  IN [s \in DOMAIN states \ expired |-> states[s]]

\* clean_old_states, with now = datetime.now().timestamp()
clean_old_states(states, now) ==
  LET expired == {s \in DOMAIN states :
                    now - states[s].timestamp > StateLifetime \/ states[s].used}
  IN [s \in DOMAIN states \ expired |-> states[s]]

\* GET /auth/google: state is the value flow.authorization_url() generated,
\* elapsed the seconds between the two readings of the clock
auth_google(state, elapsed) ==
  LET issued == Put(OAUTH_STATES, state, [timestamp |-> clock, used |-> FALSE])
      now == clock + elapsed
  IN /\ OAUTH_STATES' = clean_old_states(issued, now)
     /\ clock' = now
     /\ last' = Reply("auth_google", [some |-> TRUE, val |-> state], [elapsed |-> elapsed],
                      302, None, FALSE, [before |-> issued, now |-> now], {}, {})
     /\ calls' = {}
     /\ UNCHANGED <<wrap, session, qr_files, sites, origin, inflight>>

\* ------------------------------------------------------------ the other gated routes
\* the routes that work on Google Drive: /api/files*, /api/folders, /api/share,
\* /api/templates*
DriveRoutes ==
  {"upload_file", "list_files", "get_file", "get_file_content", "create_file",
   "update_file", "delete_file", "create_folder", "create_shareable_link",
   "get_templates", "get_template", "create_template", "update_template",
   "delete_template"}

\* those of them that check their input before the first Drive call
ValidatingRoutes ==
  {"upload_file", "create_file", "create_folder", "create_shareable_link", "create_template"}

\* those of them that write a temporary file for the upload
TempFileRoutes == {"upload_file", "create_file", "update_file", "create_template",
                   "update_template"}

\* one of the Drive routes; env.valid: the input passes the route's validation,
\* env.drive_ok: the Drive calls succeed
drive_route(route, env) ==
  LET Answer(status, body, made) ==
        /\ last' = Reply(route, None, env, status, body, FALSE, NoLocals, {}, {})
        /\ calls' = made
  IN /\ UNCHANGED <<wrap, session, qr_files, sites, origin, oauth, inflight>>
     /\ IF ~get_credentials(session)
        THEN Answer(401, "Authentication required. Please sign in.", {})
        ELSE IF route \in ValidatingRoutes /\ ~env.valid
        THEN Answer(400, "required", {})
        ELSE IF ~env.drive_ok
        THEN Answer(500, "drive failed",
                    {"drive"} \cup (IF route \in TempFileRoutes THEN {"tempfile"} ELSE {}))
        ELSE Answer(200, "ok",
                    {"drive"} \cup (IF route \in TempFileRoutes THEN {"tempfile"} ELSE {}))

\* GET /api/sites
get_sites(env) ==
  LET Answer(status, body, made) ==
        /\ last' = Reply("get_sites", None, env, status, body, FALSE, NoLocals, {}, {})
        /\ calls' = made
  IN /\ UNCHANGED <<wrap, session, qr_files, sites, origin, oauth, inflight>>
     /\ IF ~get_credentials(session)
        THEN Answer(401, "Authentication required. Please sign in.", {})
        ELSE IF ~env.db_ok
        THEN Answer(500, "Database connection failed", {})
        ELSE Answer(200, sites, {"select"})

\* GET /api/sites/<site_id>
get_site(site_id, env) ==
  LET Answer(status, body, made) ==
        /\ last' = Reply("get_site", [site_id |-> site_id], env, status, body,
                         FALSE, NoLocals, {}, {})
        /\ calls' = made
  IN /\ UNCHANGED <<wrap, session, qr_files, sites, origin, oauth, inflight>>
     /\ IF ~get_credentials(session)
        THEN Answer(401, "Authentication required. Please sign in.", {})
        ELSE IF ~env.db_ok
        THEN Answer(500, "Database connection failed", {})
        ELSE IF site_id \notin DOMAIN sites
        THEN Answer(404, "Site not found", {"select"})
        ELSE Answer(200, sites[site_id], {"select"})

\* ------------------------------------------------------------ wrap_text on its own
WrapChars == {R("W", 3), R("W", 1), R("i", 1), SP}

SeqsUpTo(S, n) == UNION {[1..k -> S] : k \in 0..n}

WrapTexts == SeqsUpTo(WrapChars, MaxLen)

WrapWidths == {k * WidthStep : k \in 0..MaxWidthSteps}

WrapIdle == [route |-> "none", text |-> <<>>, max_width |-> 0, font |-> DefaultFont,
             lines |-> <<>>, done |-> FALSE]

WrapInit ==
  /\ session = NoSession
  /\ qr_files = <<>>
  /\ sites = <<>>
  /\ origin = <<>>
  /\ last = NoRequest
  /\ calls = {}
  /\ OAUTH_STATES = <<>>
  /\ clock = 0
  /\ inflight = <<>>
  /\ wrap \in {[WrapIdle EXCEPT !.text = t, !.max_width = m, !.font = f] :
              t \in WrapTexts, m \in WrapWidths, f \in Fonts}

WrapGenerateQr ==
  /\ ~wrap.done
  /\ wrap' = [wrap EXCEPT !.route = "generate_qr", !.done = TRUE,
                          !.lines = wrap_text(wrap.text, wrap.max_width, wrap.font)]
  /\ UNCHANGED <<session, qr_files, sites, origin, last, calls, oauth, inflight>>

WrapCreateSite ==
  /\ ~wrap.done
  /\ wrap' = [wrap EXCEPT !.route = "create_site", !.done = TRUE,
                          !.lines = site_wrap_text(wrap.text, wrap.max_width, wrap.font)]
  /\ UNCHANGED <<session, qr_files, sites, origin, last, calls, oauth, inflight>>

WrapNext == WrapGenerateQr \/ WrapCreateSite

WrapSpec == WrapInit /\ [][WrapNext]_vars

\* ------------------------------------------------------------ the server
\* values uuid.uuid4().hex[:8] is drawn from
HexIds == {"0a1b2c3d", "4e5f6071"}

\* values of datetime.now().isoformat()
Times == {"2026-01-01T00:00:00"}

AllFonts == {FontCandidates[i] : i \in 1..Len(FontCandidates)}

Word_i == <<R("i", 1)>>
Url17 == <<R("u", 17)>>

QrData ==
  [site_name : {Some(Word_i)},
   site_location : {None, Some(Word_i)},
   resource_url : {Some(<<SP>>), Some(Url17)}]

QrEnv == [installed : {AllFonts}, save_ok : BOOLEAN, hex : HexIds]

SiteData ==
  [name : {Some(Word_i)},
   location : {Some(Word_i)},
   folder_link : {Some(<<>>), Some(Url17)},
   folder_type : {None},
   description : {None},
   site_id : {None, Some(<<"site_", "0a1b2c3d">>)}]

SiteEnv ==
  [installed : {AllFonts}, save_ok : {TRUE}, db_ok : BOOLEAN, drive_ok : {TRUE},
   hex_site : {"0a1b2c3d"}, hex_qr : HexIds, now : Times]

UpdateData ==
  [name : {None, Some(<<>>)},
   location : {None},
   folder_link : {None},
   folder_type : {None},
   description : {None}]

\* the database and the Drive user-info request: both up, or one of them down
DbEnv ==
  {[db_ok |-> d, drive_ok |-> g, now |-> t] :
     d \in BOOLEAN, g \in BOOLEAN, t \in Times} \ {[db_ok |-> FALSE, drive_ok |-> FALSE, now |-> t] : t \in Times}

SiteIds == {<<"site_", "0a1b2c3d">>}

DriveEnv == [valid : BOOLEAN, drive_ok : BOOLEAN]

FileNames == {png(<<p, h>>) : p \in {"site_", "qr_"}, h \in HexIds}

IncomingStates == {[some |-> TRUE, val |-> "st1"]}

Init ==
  /\ wrap = WrapIdle
  /\ session = NoSession
  /\ qr_files = <<>>
  /\ sites = <<>>
  /\ origin = <<>>
  /\ last = NoRequest
  /\ calls = {}
  /\ OAUTH_STATES = <<>>
  /\ clock = 0
  /\ inflight = <<>>

Next ==
  \/ \E s \in IncomingStates, token_ok \in BOOLEAN :
       auth_google_callback(s, token_ok, TRUE)
  \/ auth_logout
  \/ \E about_ok \in BOOLEAN : auth_status(about_ok)
  \/ \E route \in DriveRoutes, env \in DriveEnv : drive_route(route, env)
  \/ \E env \in DbEnv : get_sites(env)
  \/ \E site_id \in SiteIds, env \in DbEnv : get_site(site_id, env)
  \/ \E data \in QrData, env \in QrEnv : generate_qr(data, env)
  \/ \E filename \in FileNames : serve_qrcode(filename)
  \/ \E data \in SiteData, env \in SiteEnv : create_site(data, env)
  \/ \E site_id \in SiteIds, has_body \in BOOLEAN, data \in UpdateData, env \in DbEnv :
       update_site(site_id, has_body, data, env)
  \/ \E site_id \in SiteIds, env \in DbEnv : delete_site(site_id, env)

Spec == Init /\ [][Next]_vars

\* ------------------------------------------------------------ the OAuth flow
\* last reading of the clock
MaxClock == 1500
\* most seconds the clock is off the grid of half lifetimes
MaxDrift == 1

HalfLifetime == StateLifetime \div 2

\* values of the state flow.authorization_url() generates
OAuthStates == {"st1", "st2", "st3"}

\* the state parameter of a callback: absent, issued by auth_google, or made up
CallbackStates ==
  {NoState} \cup {[some |-> TRUE, val |-> s] : s \in OAuthStates \cup {"forged"}}

\* time passes between requests
time_passes ==
  /\ clock + HalfLifetime <= MaxClock
  /\ clock' = clock + HalfLifetime
  /\ UNCHANGED <<wrap, session, qr_files, sites, origin, last, calls, OAUTH_STATES, inflight>>

OAuthIssue ==
  \E state \in OAuthStates, elapsed \in {0, 1} :
    /\ clock + elapsed <= MaxClock
    /\ (clock + elapsed) % HalfLifetime <= MaxDrift
    /\ auth_google(state, elapsed)

OAuthNext ==
  \/ OAuthIssue
  \/ time_passes
  \/ \E s \in CallbackStates, token_ok \in BOOLEAN, about_ok \in BOOLEAN :
       auth_google_callback(s, token_ok, about_ok)
  \/ auth_logout

OAuthSpec == Init /\ [][OAuthNext]_vars

\* ------------------------------------------------------------ one composition request
\* most words of a caption
MaxWords == 2

CaptionWords == {<<R("W", 9)>>, <<R("W", 18)>>, <<R("i", 1)>>}

Phrases == {join(ws) : ws \in SeqsUpTo(CaptionWords, MaxWords)}

Captions ==
  {None, Some(<<R(" ", 2)>>), Some(<<SP, R("i", 1), SP>>)} \cup {Some(p) : p \in Phrases}

Payloads ==
  {None, Some(<<R(" ", 2)>>), Some(Url17), Some(<<SP, R("u", 18), SP>>), Some(<<R("u", 2954)>>)}

ComposeQrData == [site_name : Captions, site_location : Captions, resource_url : Payloads]

ComposeQrEnv == [installed : SUBSET AllFonts, save_ok : BOOLEAN, hex : {"0a1b2c3d"}]

ComposeSiteData ==
  [name : Captions, location : Captions, folder_link : Payloads,
   folder_type : {None}, description : {None}, site_id : {None}]

ComposeSiteEnv ==
  [installed : SUBSET AllFonts, save_ok : BOOLEAN, db_ok : {TRUE}, drive_ok : {TRUE},
   hex_site : {"0a1b2c3d"}, hex_qr : {"0a1b2c3d"}, now : Times]

SignedIn == [state |-> [some |-> TRUE, val |-> "st1"], credentials |-> TRUE, user_info |-> TRUE]

ComposeInit ==
  /\ wrap = WrapIdle
  /\ session = SignedIn
  /\ qr_files = <<>>
  /\ sites = <<>>
  /\ origin = <<>>
  /\ last = NoRequest
  /\ calls = {}
  /\ OAUTH_STATES = <<>>
  /\ clock = 0
  /\ inflight = <<>>

ComposeQr ==
  /\ last.op = "none"
  /\ \E data \in ComposeQrData, env \in ComposeQrEnv : generate_qr(data, env)

ComposeSite ==
  /\ last.op = "none"
  /\ \E data \in ComposeSiteData, env \in ComposeSiteEnv : create_site(data, env)

ComposeNext == ComposeQr \/ ComposeSite

ComposeSpec == ComposeInit /\ [][ComposeNext]_vars

\* ------------------------------------------------------------ requests that differ in their captions
EmptyLike == {None, Some(<<>>), Some(<<R(" ", 2)>>)}

PairNames == {None, Some(<<R(" ", 2)>>), Some(Word_i)}

PairLocations == EmptyLike \cup {Some(Word_i)}

PairQrData == [site_name : PairNames, site_location : PairLocations, resource_url : {Some(Url17)}]

PairQrEnv == [installed : {AllFonts, {}}, save_ok : {TRUE}, hex : HexIds]

PairSiteData ==
  [name : PairNames, location : PairLocations, folder_link : {Some(Url17)},
   folder_type : {None}, description : {None}, site_id : {None}]

PairSiteEnv ==
  [installed : {AllFonts}, save_ok : {TRUE}, db_ok : {TRUE}, drive_ok : {TRUE},
   hex_site : {"0a1b2c3d"}, hex_qr : HexIds, now : Times]

PairNext ==
  \/ \E data \in PairQrData, env \in PairQrEnv : generate_qr(data, env)
  \/ \E data \in PairSiteData, env \in PairSiteEnv : create_site(data, env)

PairSpec == ComposeInit /\ [][PairNext]_vars

\* ------------------------------------------------------------ the sites of one signed-in user
Url17v == <<R("v", 17)>>
Word_W == <<R("W", 1)>>

SitesCreateData ==
  [name : {Some(Word_i)}, location : {Some(Word_i)}, folder_link : {Some(Url17)},
   folder_type : {None}, description : {None}, site_id : {None}]

SitesCreateEnv ==
  [installed : {AllFonts}, save_ok : {TRUE}, db_ok : {TRUE}, drive_ok : {TRUE},
   hex_site : HexIds, hex_qr : HexIds, now : {"2026-01-01T00:00:00"}]

\* bodies of PUT /api/sites/<site_id>: fields absent, empty or new
SitesUpdateData ==
  [name : {None, Some(<<>>), Some(Word_W)},
   location : {None},
   folder_link : {None, Some(Url17v)},
   folder_type : {None},
   description : {None}]

SitesDbEnv ==
  {[db_ok |-> TRUE, drive_ok |-> TRUE, now |-> "2026-01-02T00:00:00"],
   [db_ok |-> FALSE, drive_ok |-> TRUE, now |-> "2026-01-02T00:00:00"],
   [db_ok |-> TRUE, drive_ok |-> FALSE, now |-> "2026-01-02T00:00:00"]}

SitesIds == {<<"site_", h>> : h \in HexIds}

SitesNext ==
  \/ \E data \in SitesCreateData, env \in SitesCreateEnv : create_site(data, env)
  \/ \E site_id \in SitesIds, has_body \in BOOLEAN, data \in SitesUpdateData,
        env \in SitesDbEnv : update_site(site_id, has_body, data, env)
  \/ \E site_id \in SitesIds, env \in SitesDbEnv : delete_site(site_id, env)

SitesSpec == ComposeInit /\ [][SitesNext]_vars

\* ------------------------------------------------------------ requests handled concurrently
\* Flask serves each request in its own thread; a handler is a sequence of
\* statements, and the statements of two requests interleave.  A request that
\* passed the credential check and the validation is at one of:
\*   "save"    composed, identifier drawn, before out.save
\*   "insert"  create_site only: file saved, before the INSERT
\*   "respond" before jsonify(...)
\*   "done"    answered
\* Each thread handles one request.
Slots == {"thread1", "thread2"}

ConcQrData == [site_name : {Some(Word_i)}, site_location : {None, Some(Word_i)},
               resource_url : {Some(Url17)}]

ConcQrEnv == [installed : {AllFonts}, save_ok : {TRUE}, hex : HexIds]

ConcSiteData ==
  [name : {Some(Word_i)}, location : {Some(Word_i), Some(<<R("W", 1)>>)},
   folder_link : {Some(Url17)}, folder_type : {None}, description : {None}, site_id : {None}]

ConcSiteEnv ==
  [installed : {AllFonts}, save_ok : {TRUE}, db_ok : {TRUE}, drive_ok : {TRUE},
   hex_site : HexIds, hex_qr : HexIds, now : Times]

\* generate_qr up to the identifier: lines 814-952
generate_qr_compose(p, data, env) ==
  LET f == qr_fields(data)
      q == qr_make(f.resource_url)
      c == qr_compose(f.site_name, f.site_location, f.resource_url, q.version, env.installed)
      qr_id == <<"site_", env.hex>>
      filename == png(qr_id)
      result == [qr_id |-> qr_id, qr_png_view_link |-> qr_link(filename),
                 qr_png_download_link |-> qr_link(filename), site_name |-> f.site_name,
                 site_location |-> f.site_location, resource_url |-> f.resource_url]
  IN /\ p \notin DOMAIN inflight
     /\ get_credentials(session)
     /\ f.site_name # <<>> /\ f.resource_url # <<>> /\ q.ok
     /\ inflight' = Put(inflight, p,
                        [op |-> "generate_qr", pc |-> "save", data |-> data, env |-> env,
                         c |-> c, filename |-> filename, status |-> 200, body |-> result,
                         inserted |-> {}])
     /\ UNCHANGED <<wrap, session, qr_files, sites, origin, last, calls, oauth>>

\* create_site up to the identifier: lines 1312-1447
create_site_compose(p, data, env) ==
  LET f == site_fields(data, env.hex_site)
      q == qr_make(f.folder_link)
      c == site_compose(f.name, f.location, f.folder_link, q.version, env.installed)
      qr_id == <<"qr_", env.hex_qr>>
      qr_filename == png(qr_id)
      new_site == [id |-> f.site_id, name |-> f.name, location |-> f.location,
                   folder_type |-> f.folder_type, folder_link |-> f.folder_link,
                   description |-> f.description, qr_url |-> qr_link(qr_filename),
                   qr_id |-> qr_id, created_at |-> env.now, updated_at |-> env.now,
                   created_by |-> UserEmail]
  IN /\ p \notin DOMAIN inflight
     /\ get_credentials(session) /\ env.drive_ok
     /\ f.name # <<>> /\ f.location # <<>> /\ f.folder_link # <<>> /\ q.ok
     /\ inflight' = Put(inflight, p,
                        [op |-> "create_site", pc |-> "save", data |-> data, env |-> env,
                         c |-> c, filename |-> qr_filename, status |-> 200, body |-> new_site,
                         inserted |-> {}])
     /\ UNCHANGED <<wrap, session, qr_files, sites, origin, last, calls, oauth>>

\* out.save(path, format="PNG"): lines 954 and 1449
out_save(p) ==
  /\ p \in DOMAIN inflight
  /\ inflight[p].pc = "save"
  /\ LET r == inflight[p]
         payload == IF r.op = "generate_qr" THEN r.data.resource_url ELSE r.data.folder_link
         name == IF r.op = "generate_qr" THEN r.data.site_name ELSE r.data.name
         location == IF r.op = "generate_qr" THEN r.data.site_location ELSE r.data.location
     IN /\ qr_files' = Put(qr_files, r.filename, r.c.out)
        /\ origin' = Put(origin, r.filename,
                         [op |-> r.op, name |-> name, location |-> location,
                          payload |-> payload, installed |-> r.env.installed])
        /\ inflight' = [inflight EXCEPT ![p].pc = IF r.op = "create_site" THEN "insert"
                                                  ELSE "respond"]
  /\ UNCHANGED <<wrap, session, sites, last, calls, oauth>>

\* create_site, lines 1456-1472: the INSERT and its commit
sites_insert(p) ==
  /\ p \in DOMAIN inflight
  /\ inflight[p].pc = "insert"
  /\ LET r == inflight[p]
     IN IF r.body.id \in DOMAIN sites
        THEN /\ inflight' = [inflight EXCEPT ![p].pc = "respond", ![p].status = 500,
                                             ![p].body = "Failed to create site"]
             /\ UNCHANGED sites
        ELSE /\ sites' = Put(sites, r.body.id, r.body)
             /\ inflight' = [inflight EXCEPT ![p].pc = "respond", ![p].inserted = {r.body.id}]
  /\ UNCHANGED <<wrap, session, qr_files, origin, last, calls, oauth>>

\* return jsonify(...): lines 974 and 1500
respond(p) ==
  /\ p \in DOMAIN inflight
  /\ inflight[p].pc = "respond"
  /\ LET r == inflight[p]
     IN /\ last' = Reply(r.op, r.data, r.env, r.status, r.body, TRUE, r.c,
                         {r.filename}, r.inserted)
        /\ calls' = IF r.op = "create_site" THEN {"drive", "insert"} ELSE {}
  /\ inflight' = [inflight EXCEPT ![p].pc = "done"]
  /\ UNCHANGED <<wrap, session, qr_files, sites, origin, oauth>>

ConcNext ==
  \/ \E p \in Slots, data \in ConcQrData, env \in ConcQrEnv : generate_qr_compose(p, data, env)
  \/ \E p \in Slots, data \in ConcSiteData, env \in ConcSiteEnv :
       create_site_compose(p, data, env)
  \/ \E p \in Slots : out_save(p)
  \/ \E p \in Slots : sites_insert(p)
  \/ \E p \in Slots : respond(p)

ConcSpec == ComposeInit /\ [][ConcNext]_vars

\* ------------------------------------------------------------ claims on wrap_text
WordCount(line) == Len(split(line))

\* C1: every line wrap_text returns is at most max_width wide when rendered,
\* unless the line is exactly one word that alone is wider than max_width.
C1_LinesFit ==
  wrap.done =>
    \A i \in 1..Len(wrap.lines) :
      \/ textwidth(wrap.font, wrap.lines[i]) <= wrap.max_width
      \/ /\ WordCount(wrap.lines[i]) = 1
         /\ textwidth(wrap.font, wrap.lines[i]) > wrap.max_width

\* a wrapped text with a line of several words and a line that is one over-wide word
C1_Witness ==
  /\ wrap.done
  /\ \E i \in 1..Len(wrap.lines) :
       WordCount(wrap.lines[i]) >= 2 /\ textwidth(wrap.font, wrap.lines[i]) <= wrap.max_width
  /\ \E i \in 1..Len(wrap.lines) :
       WordCount(wrap.lines[i]) = 1 /\ textwidth(wrap.font, wrap.lines[i]) > wrap.max_width

\* C2: wrap_text keeps every word, whole and in order: the lines joined by
\* single spaces are the text's words joined by single spaces, no line is
\* empty, a word wider than max_width is alone on its line, and a text of one
\* word narrower than max_width gives the one-element list of that word.
C2_WordsKept ==
  wrap.done =>
    LET words == split(wrap.text) IN
    /\ join(wrap.lines) = join(words)
    /\ split(join(wrap.lines)) = words
    /\ \A i \in 1..Len(wrap.lines) : wrap.lines[i] # <<>> /\ WordCount(wrap.lines[i]) >= 1
    /\ \A i \in 1..Len(wrap.lines) :
         (\E k \in 1..Len(split(wrap.lines[i])) :
            textwidth(wrap.font, split(wrap.lines[i])[k]) > wrap.max_width)
         => WordCount(wrap.lines[i]) = 1
    /\ (Len(words) = 1 /\ textwidth(wrap.font, words[1]) < wrap.max_width)
         => wrap.lines = <<words[1]>>

\* an over-wide word between two narrow ones, each ending on its own line
C2_Witness ==
  /\ wrap.done
  /\ Len(wrap.lines) = 3
  /\ textwidth(wrap.font, wrap.lines[2]) > wrap.max_width
  /\ textwidth(wrap.font, wrap.lines[1]) <= wrap.max_width
  /\ textwidth(wrap.font, wrap.lines[3]) <= wrap.max_width

\* ------------------------------------------------------------ claims on the composition
Composed == last.op \in {"generate_qr", "create_site"}

\* the payload and the two captions as the request gave them
RawPayload == IF last.op = "generate_qr" THEN last.data.resource_url ELSE last.data.folder_link
RawName == IF last.op = "generate_qr" THEN last.data.site_name ELSE last.data.name
RawLocation == IF last.op = "generate_qr" THEN last.data.site_location ELSE last.data.location

Trimmed(o) == strip(OrEmpty(o))

\* the image file the last request wrote
Written == qr_files[CHOOSE f \in last.wrote : TRUE]

\* C3: a successful composition's canvas is as wide as the QR symbol and
\* H + max(60, caption height) high, so at least H + 60 high.
C3_CanvasSize ==
  (Composed /\ last.status = 200) =>
    /\ last.wrote # {}
    /\ Written.size[1] = last.locals.qr_w
    /\ last.locals.qr_w = qr_size(qr_make(Trimmed(RawPayload)).version)
    /\ Written.size[2] = last.locals.qr_h
                         + (IF last.locals.text_height > 60 THEN last.locals.text_height ELSE 60)
    /\ Written.size[2] >= last.locals.qr_h + 60

\* a composition whose caption is higher than the floor, and canvas with it
C3_Witness ==
  /\ Composed /\ last.status = 200
  /\ last.locals.text_height > 60
  /\ Written.size[2] = last.locals.qr_h + last.locals.text_height

\* C7: a request whose payload is empty after trimming is answered with an
\* error; no QR symbol is encoded, no file written, no row inserted.
C7_EmptyPayloadRejected ==
  (Composed /\ Trimmed(RawPayload) = <<>>) =>
    /\ last.status >= 400
    /\ ~last.encoded
    /\ last.wrote = {} /\ last.inserted = {}
    /\ qr_files = <<>> /\ sites = <<>>

\* a create_site request with good captions and a payload of blanks only
C7_Witness ==
  /\ last.op = "create_site"
  /\ RawPayload.some /\ RawPayload.val # <<>> /\ Trimmed(RawPayload) = <<>>
  /\ Trimmed(RawName) # <<>> /\ Trimmed(RawLocation) # <<>>
  /\ last.status = 400

\* the rows the caption draws, top to bottom
Drawn == last.locals.out.text

\* what one wrapped line adds to the computed caption height
PerLine ==
  IF last.op = "generate_qr" THEN last.locals.line_height
  ELSE last.locals.line_height + gap

\* C9: an empty caption entry gives no wrapped lines and no height; the
\* inter-block gap enters the caption height and the cursor only when both
\* entries have lines, and with one entry alone no gap is inserted.
C9_EmptyEntryNoGap ==
  (Composed /\ last.encoded) =>
    LET c == last.locals
        n1 == Len(c.name_lines)
        n2 == Len(c.loc_lines)
        both == n1 > 0 /\ n2 > 0
    IN /\ Trimmed(RawName) = <<>> => n1 = 0
       /\ Trimmed(RawLocation) = <<>> => n2 = 0
       /\ c.text_height = 10 + n1 * PerLine + (IF both THEN 12 ELSE 0) + n2 * PerLine + 10
       /\ Len(Drawn) = n1 + n2
       /\ Len(Drawn) > 0 => Drawn[1].y = c.qr_h + 10
       /\ \A k \in 1..(Len(Drawn) - 1) :
            Drawn[k + 1].y - Drawn[k].y =
              c.line_height + (IF both /\ k = n1 THEN 12 ELSE 6)

\* a generate_qr composition with a two-line name and a location of blanks only
C9_Witness ==
  /\ last.op = "generate_qr" /\ last.status = 200
  /\ RawLocation.some /\ RawLocation.val # <<>>
  /\ Len(last.locals.loc_lines) = 0
  /\ Len(last.locals.name_lines) = 2

FirstInstalled(installed) ==
  LET ok == {i \in 1..Len(FontCandidates) : FontCandidates[i] \in installed}
  IN IF ok = {} THEN 0 ELSE CHOOSE i \in ok : \A j \in ok : i <= j

\* C10: font resolution tries DejaVuSans.ttf, Arial.ttf, Arial in this order,
\* uses the first that loads and tries none after it, falls back to the
\* built-in font when none loads, and never makes the request fail.
C10_FontResolution ==
  /\ (Composed /\ last.encoded) =>
       LET c == last.locals
           first == FirstInstalled(last.env.installed)
       IN /\ c.font \in Fonts
          /\ first > 0 => /\ c.font = FontCandidates[first]
                          /\ c.attempts = first
                          /\ c.tried_fonts = SubSeq(FontCandidates, 1, first - 1)
          /\ first = 0 => /\ c.font = DefaultFont
                          /\ c.attempts = 3
                          /\ c.tried_fonts = <<"DejaVuSans.ttf", "Arial.ttf", "Arial">>
          /\ c.out.font = c.font
  /\ (Composed /\ last.status = 500) =>
       \/ ~qr_make(Trimmed(RawPayload)).ok
       \/ ~last.env.save_ok

\* a composition that succeeds with no candidate installed, on the built-in font
C10_Witness ==
  /\ Composed /\ last.status = 200
  /\ last.env.installed = {}
  /\ last.locals.font = DefaultFont
  /\ Len(last.locals.tried_fonts) = 3

\* ------------------------------------------------------------ claims on captions left empty
IsEmptyLike(o) == Trimmed(o) = <<>>

WithinCapacity(o) == Trimmed(o) # <<>> /\ qr_make(Trimmed(o)).ok

GeneratedFiles == {f \in DOMAIN qr_files : origin[f].op = "generate_qr"}

Laid == Composed /\ last.encoded

NameCount == Len(last.locals.name_lines)
LocCount == Len(last.locals.loc_lines)
BothBlocks == NameCount > 0 /\ LocCount > 0

\* C13: in both handlers the computed caption height is top padding 10 +
\* n1 * (line height + 6) + 12 when both entries have lines +
\* n2 * (line height + 6) + bottom padding 10.
C13_CaptionHeight ==
  Laid =>
    last.locals.text_height =
      10 + NameCount * (last.locals.line_height + 6)
         + (IF BothBlocks THEN 12 ELSE 0)
         + LocCount * (last.locals.line_height + 6) + 10

\* the distance from drawn line i to drawn line i + 1
Step(i) == Drawn[i + 1].y - Drawn[i].y

\* C14 as stated: the cursor starts at H + 10, advances by line height + 6
\* after each line, and between the two blocks by 12 more.
C14_CursorBlockGap12 ==
  Laid =>
    /\ Len(Drawn) = NameCount + LocCount
    /\ Len(Drawn) > 0 => Drawn[1].y = last.locals.qr_h + 10
    /\ \A i \in 1..(Len(Drawn) - 1) :
         Step(i) = last.locals.line_height + 6
                   + (IF i = NameCount /\ BothBlocks THEN 12 ELSE 0)

\* C14, amended: the cursor starts at H + 10 and advances by line height + 6
\* after each line, the same line height for every line; between the last
\* name line and the first location line it advances by 6 more (the block gap
\* 12 less the line gap 6), so the two blocks are line height + 12 apart,
\* exactly when both entries have lines.
C14_CursorAdvance ==
  Laid =>
    /\ Len(Drawn) = NameCount + LocCount
    /\ Len(Drawn) > 0 => Drawn[1].y = last.locals.qr_h + 10
    /\ \A i \in 1..(Len(Drawn) - 1) :
         Step(i) = last.locals.line_height + 6
                   + (IF i = NameCount /\ BothBlocks THEN 6 ELSE 0)

\* a stored image with two name lines and a location line
C14_Witness ==
  /\ Laid /\ last.status = 200
  /\ NameCount = 2 /\ LocCount >= 1
  /\ Step(1) = last.locals.line_height + 6
  /\ Step(2) = last.locals.line_height + 12

\* rendered width of a drawn line
DrawnWidth(d) == textwidth(last.locals.font, d.text)

\* C15: every line of width w is drawn at x = max(10, (W - w) div 2); x is
\* never below 10; a line with w <= W - 20 is centered, its two margins
\* differing by at most one pixel, and ends at or before W - 10.
C15_Centered ==
  Laid =>
    \A i \in 1..Len(Drawn) :
      LET d == Drawn[i]
          w == DrawnWidth(d)
          W == last.locals.qr_w
          right == W - (d.x + w)
      IN /\ d.x = Max(10, (W - w) \div 2)
         /\ d.x >= 10
         /\ w <= W - 20 => /\ d.x - right \in {-1, 0, 1}
                            /\ d.x + w <= W - 10

\* an image with a line too wide to center, held at x = 10, and a line of odd
\* slack, centered with margins one pixel apart
C15_Witness ==
  /\ Laid /\ last.status = 200
  /\ \E i \in 1..Len(Drawn) :
       DrawnWidth(Drawn[i]) > last.locals.qr_w - 20 /\ Drawn[i].x = 10
  /\ \E i \in 1..Len(Drawn) :
       LET d == Drawn[i]
       IN /\ DrawnWidth(d) <= last.locals.qr_w - 20
          /\ (last.locals.qr_w - (d.x + DrawnWidth(d))) - d.x = 1

\* C16: every drawn line lies below the QR symbol and inside the canvas:
\* y >= H + 10 and y + line height <= canvas height.
C16_LinesInsideCanvas ==
  Laid =>
    \A i \in 1..Len(Drawn) :
      /\ Drawn[i].y >= last.locals.qr_h + 10
      /\ Drawn[i].y + last.locals.line_height <= last.locals.out.size[2]

\* ------------------------------------------------------------ claims on the sites table
\* C21: every row of the sites table has a non-empty name, a non-empty
\* location and a non-empty folder_link.
C21_RowsFilled ==
  \A id \in DOMAIN sites :
    /\ sites[id].name # <<>>
    /\ sites[id].location # <<>>
    /\ sites[id].folder_link # <<>>

\* the columns a request body can set
BodyColumns == {"name", "location", "folder_link", "folder_type", "description"}

\* the columns update_site never sets
KeptColumns == {"id", "qr_url", "qr_id", "created_at", "created_by"}

\* C22: a successful update_site sets, in the addressed row, the body's
\* non-null fields among name, location, folder_link, folder_type and
\* description, and updated_at; every other column of the row and every other
\* row stay as they were, and the response is the row as stored.
C22_UpdateFrame ==
  [][(last'.op = "update_site" /\ last'.status = 200)
       => LET id == last'.data.site_id
              body == last'.data.body
          IN /\ id \in DOMAIN sites
             /\ DOMAIN sites' = DOMAIN sites
             /\ \A other \in DOMAIN sites \ {id} : sites'[other] = sites[other]
             /\ \A k \in BodyColumns :
                  sites'[id][k] = IF body[k].some THEN body[k].val ELSE sites[id][k]
             /\ sites'[id].updated_at = last'.env.now
             /\ \A k \in KeptColumns : sites'[id][k] = sites[id][k]
             /\ last'.body = sites'[id]]_vars

\* a successful update that gave a name and no folder_link, with a second row
\* in the table
C22_Witness ==
  /\ last.op = "update_site" /\ last.status = 200
  /\ last.data.body.name = Some(Word_W)
  /\ ~last.data.body.folder_link.some
  /\ Cardinality(DOMAIN sites) = 2
  /\ sites[last.data.site_id].name = Word_W
  /\ sites[last.data.site_id].folder_link = Url17
  /\ sites[last.data.site_id].updated_at # sites[last.data.site_id].created_at

\* the image create_site composes for a row, with the fonts file f was drawn with
SiteImage(row, f) ==
  site_compose(row.name, row.location, row.folder_link,
               qr_make(row.folder_link).version, origin[f].installed).out

\* C23: the image file named by a site's qr_id encodes the site's current
\* folder_link and is captioned with its current name and location.
C23_QrMatchesRow ==
  \A id \in DOMAIN sites :
    LET f == png(sites[id].qr_id)
    IN /\ f \in DOMAIN qr_files
       /\ qr_files[f].qr.data = sites[id].folder_link
       /\ qr_files[f] = SiteImage(sites[id], f)

\* C24: an update_site or delete_site that answers 404 or 500 leaves the
\* sites table as it was; these requests change or remove a row only when
\* they answer with success.
C24_ErrorLeavesTable ==
  [][(last'.op \in {"update_site", "delete_site"})
       => /\ last'.status \in {404, 500} => sites' = sites
          /\ sites' # sites => last'.status = 200]_vars

\* ------------------------------------------------------------ claims on the credential check
\* the routes that answer 401 without credentials
GatedRoutes ==
  DriveRoutes \cup {"generate_qr", "get_sites", "get_site", "create_site", "update_site",
                    "delete_site"}

\* C17: a request to a credential-gated route in a session without credentials
\* is answered 401, makes no Drive call and no sites-table statement, encodes
\* and writes nothing, and leaves the sites table and QR_CODES_DIR as they were.
C17_GateBeforeEffects ==
  [][(last'.op \in GatedRoutes /\ ~session.credentials)
       => /\ last'.status = 401
          /\ calls' = {}
          /\ ~last'.encoded /\ last'.wrote = {} /\ last'.inserted = {}
          /\ sites' = sites /\ qr_files' = qr_files]_vars

\* a request for a gated route answered 401 after a logout, with a site row
\* and image files stored
C17_Witness ==
  /\ last.op = "delete_site" /\ last.status = 401
  /\ ~session.credentials
  /\ calls = {}
  /\ sites # <<>> /\ qr_files # <<>>

\* ------------------------------------------------------------ claims on the OAuth flow
\* state s is in OAUTH_STATES, not marked used and not older than the lifetime
Valid(s) ==
  /\ s.some
  /\ s.val \in DOMAIN OAUTH_STATES
  /\ ~OAUTH_STATES[s.val].used
  /\ clock - OAUTH_STATES[s.val].timestamp <= StateLifetime

\* C18: the callback stores credentials only when its state parameter is a
\* state auth_google issued that is neither used nor expired.
C18_StateChecked ==
  [][(last'.op = "auth_google_callback" /\ last'.status = 302 /\ clock' = clock)
       => Valid(last'.data)]_vars

\* C19: after clean_old_states, OAUTH_STATES holds exactly the entries that
\* were there before the call, are not marked used and were issued at most
\* 600 seconds before; the state auth_google just issued is among them.
C19_CleanKeepsFresh ==
  last.op = "auth_google" =>
    LET before == last.locals.before
        now == last.locals.now
    IN /\ \A s \in DOMAIN before :
            s \in DOMAIN OAUTH_STATES <=>
              (~before[s].used /\ now - before[s].timestamp <= 600)
       /\ \A s \in DOMAIN OAUTH_STATES : s \in DOMAIN before /\ OAUTH_STATES[s] = before[s]
       /\ last.data.val \in DOMAIN OAUTH_STATES

\* an auth_google request that found one state 600 seconds old, kept, and one
\* older, dropped
C19_Witness ==
  /\ last.op = "auth_google"
  /\ \E s \in DOMAIN last.locals.before :
       /\ last.locals.now - last.locals.before[s].timestamp = 600
       /\ s \in DOMAIN OAUTH_STATES
  /\ \E s \in DOMAIN last.locals.before :
       /\ last.locals.now - last.locals.before[s].timestamp > 600
       /\ s \notin DOMAIN OAUTH_STATES

\* C20: after auth_logout, and after an auth_status whose user-info request
\* fails, the session holds no credentials; without credentials every gated
\* request is answered 401; credentials come into a session only by a callback
\* whose token exchange succeeds, and a callback whose token exchange fails
\* leaves the session's credentials as they were.
C20_SignedOutUntilCallback ==
  [][/\ last'.op = "auth_logout" => ~session'.credentials
     /\ (last'.op = "auth_status" /\ session.credentials /\ ~last'.env.about_ok)
          => ~session'.credentials
     /\ (~session.credentials /\ last'.op \in GatedRoutes) => last'.status = 401
     /\ (~session.credentials /\ session'.credentials)
          => (last'.op = "auth_google_callback" /\ last'.env.token_ok)
     /\ (last'.op = "auth_google_callback" /\ ~last'.env.token_ok)
          => session'.credentials = session.credentials]_vars

\* an auth_status request that asked Drive, failed and cleared the session,
\* with a site row stored by the same session before
C20_Witness ==
  /\ last.op = "auth_status" /\ ~last.env.about_ok
  /\ calls = {"drive"}
  /\ session = NoSession
  /\ sites # <<>>

\* ------------------------------------------------------------ claims on repeated requests
\* the inputs of the composition that wrote file f: route, captions, payload, fonts
Inputs(f) == origin[f]

Saving == {p \in DOMAIN inflight : inflight[p].pc \in {"insert", "respond"}}

\* C12: concurrent compositions do not interfere: a request that has saved its
\* file finds, until it has answered, its own image under its file name, and
\* the file a successful answer names holds the image that request composed.
C12_NoInterference ==
  /\ \A p \in Saving : qr_files[inflight[p].filename] = inflight[p].c.out
  /\ (last.op \in {"generate_qr", "create_site"} /\ last.status = 200 /\ last.wrote # {})
       => Written = last.locals.out

\* ------------------------------------------------------------ claims on the stored files
\* C4: no partial success: a generate_qr or create_site request answered with
\* an error has written no image file and inserted no row, and a create_site
\* request answered with success has left both its image file and its row.
C4_NoPartialSuccess ==
  /\ (Composed /\ last.status >= 400) => (last.wrote = {} /\ last.inserted = {})
  /\ (last.op = "create_site" /\ last.status = 200) =>
       /\ last.wrote # {} /\ last.wrote \subseteq DOMAIN qr_files
       /\ last.inserted # {} /\ last.inserted \subseteq DOMAIN sites

\* C5: every composition obtains an identifier no earlier composition of the
\* same route obtained, and stores its image under '<id>.png'.
C5_FreshIdentifier ==
  [][(last'.op \in {"generate_qr", "create_site"} /\ last'.wrote # {}) =>
       \A f \in last'.wrote :
         /\ f \notin DOMAIN qr_files
         /\ f = png(IF last'.op = "generate_qr" THEN last'.body.qr_id
                    ELSE <<"qr_", last'.env.hex_qr>>)]_vars

\* C6: an image file, once written, is never modified, overwritten or deleted
\* by a later request.
C6_FilesNeverChange ==
  [][\A f \in DOMAIN qr_files : f \in DOMAIN qr_files' /\ qr_files'[f] = qr_files[f]]_vars

=============================================================================
